---- MODULE Spec2Model ----
(***************************************************************************)
(* Model of extractor/parser.py: the PDF -> Excel line-item extractor.     *)
(*                                                                         *)
(* Text is modelled as a sequence of tokens.  A token is a single digit,   *)
(* a single punctuation character, a whitespace character, or a maximal    *)
(* run of letters (a "word").  Two adjacent word tokens stand for the      *)
(* concatenated run, so regex word boundaries (\b) are decided from the    *)
(* neighbouring tokens.                                                    *)
(***************************************************************************)
EXTENDS Integers, Sequences, FiniteSets, TLC

VARIABLES pc, page_i, all_rows, logs, cur, fn_in, fn_out

vars == <<pc, page_i, all_rows, logs, cur, fn_in, fn_out>>

\* F(v), with v evaluated once (a local variable holding the value).
With(v, F(_)) == CHOOSE x \in {F(y) : y \in {v}} : TRUE

(***************************************************************************)
(* Characters and strings                                                  *)
(***************************************************************************)
Digits == {"0", "1", "2", "3", "4", "5", "6", "7", "8", "9"}

\* "nbsp" stands for U+00A0; str.split(), str.strip() and \s all treat it
\* as whitespace.
Spaces == {" ", "\n", "nbsp"}

Punct == {",", ".", "-", ":"}

IsWordTok(t) == t \notin Spaces \cup Punct

\* Case folding (re.I / str.lower) of the cased words used in the inputs.
Lower(t) ==
  CASE t = "Art" -> "art"
    [] t = "No" -> "no"
    [] t = "Article" -> "article"
    [] t = "Description" -> "description"
    [] t = "EAN" -> "ean"
    [] t = "Qty" -> "qty"
    [] t = "Quantity" -> "quantity"
    [] t = "Price" -> "price"
    [] t = "Unit" -> "unit"
    [] t = "Not" -> "not"
    [] t = "Sold" -> "sold"
    [] t = "Invoice" -> "invoice"
    [] OTHER -> t

LowerSeq(s) == [k \in 1..Len(s) |-> Lower(s[k])]

RECURSIVE LStrip(_)
LStrip(s) == IF s # <<>> /\ Head(s) \in Spaces THEN LStrip(Tail(s)) ELSE s

RECURSIVE RStrip(_)
RStrip(s) ==
  IF s # <<>> /\ s[Len(s)] \in Spaces THEN RStrip(SubSeq(s, 1, Len(s) - 1)) ELSE s

\* str.strip()
Strip(s) == RStrip(LStrip(s))

RECURSIVE SqueezeFrom(_, _)
SqueezeFrom(t, k) ==
  IF k > Len(t) THEN <<>>
  ELSE IF t[k] \in Spaces
       THEN IF k > 1 /\ t[k - 1] \in Spaces
            THEN SqueezeFrom(t, k + 1)
            ELSE <<" ">> \o SqueezeFrom(t, k + 1)
       ELSE <<t[k]>> \o SqueezeFrom(t, k + 1)

\* " ".join(s.split()): strip, and every whitespace run becomes one space.
Collapse(s) == SqueezeFrom(Strip(s), 1)

\* Index of the first non-whitespace token at or after k (Len(s)+1 if none).
RECURSIVE SkipSpaces(_, _)
SkipSpaces(s, k) ==
  IF k <= Len(s) /\ s[k] \in Spaces THEN SkipSpaces(s, k + 1) ELSE k

\* \b between token k and token k+1, token k being a word token.
BoundaryAfter(s, k) == k = Len(s) \/ ~IsWordTok(s[k + 1])

\* \b between token k-1 and token k, token k being a word token.
BoundaryBefore(s, k) == k = 1 \/ ~IsWordTok(s[k - 1])

\* UNAVAILABLE_RX = not\s+available|sold\s+out, case-insensitive, searched.
PhraseAt(s, k, w1, w2) ==
  /\ Lower(s[k]) = w1
  /\ k + 1 <= Len(s)
  /\ s[k + 1] \in Spaces
  /\ LET j == SkipSpaces(s, k + 1) IN j <= Len(s) /\ Lower(s[j]) = w2

UNAVAILABLE_RX(s) ==
  \E k \in 1..Len(s) :
    PhraseAt(s, k, "not", "available") \/ PhraseAt(s, k, "sold", "out")

\* NUM_SANITIZE_RX.sub("", s): keep digits, comma, dot, minus.
IsNumChar(t) == t \in Digits \cup {",", ".", "-"}

NUM_SANITIZE_RX(s) == SelectSeq(s, IsNumChar)

Has(s, c) == \E k \in 1..Len(s) : s[k] = c

\* str.rfind for a single character; 0 when absent (Python: -1).
RFind(s, c) ==
  IF Has(s, c) THEN CHOOSE k \in 1..Len(s) :
                      s[k] = c /\ \A j \in (k + 1)..Len(s) : s[j] # c
  ELSE 0

Remove(s, c) == LET Keep(t) == t # c IN SelectSeq(s, Keep)

Replace(s, c, d) == [k \in 1..Len(s) |-> IF s[k] = c THEN d ELSE s[k]]

(***************************************************************************)
(* float(): the value of a decimal literal is kept exactly, as             *)
(* num / 10^scale with trailing zeros of the fraction removed.             *)
(***************************************************************************)
None == [kind |-> "none"]

DigitVal(d) ==
  CASE d = "0" -> 0 [] d = "1" -> 1 [] d = "2" -> 2 [] d = "3" -> 3
    [] d = "4" -> 4 [] d = "5" -> 5 [] d = "6" -> 6 [] d = "7" -> 7
    [] d = "8" -> 8 [] d = "9" -> 9

RECURSIVE IntOf(_)
IntOf(ds) ==
  IF ds = <<>> THEN 0
  ELSE 10 * IntOf(SubSeq(ds, 1, Len(ds) - 1)) + DigitVal(ds[Len(ds)])

RECURSIVE Reduce(_, _)
Reduce(n, sc) ==
  IF sc > 0 /\ n % 10 = 0 THEN Reduce(n \div 10, sc - 1)
  ELSE [kind |-> "num", num |-> n, scale |-> sc]

IsDigit(t) == t \in Digits

\* float(s) for s over digits, '.' and '-': an optional leading sign, at
\* most one point, at least one digit; anything else raises ValueError,
\* which _normalize_number turns into None.
ParseFloat(s) ==
  LET neg  == s # <<>> /\ s[1] = "-"
      body == IF neg THEN Tail(s) ELSE s
      dots == Cardinality({k \in 1..Len(body) : body[k] = "."})
      ds   == SelectSeq(body, IsDigit)
      frac == IF dots = 1 THEN Len(body) - RFind(body, ".") ELSE 0
      mag  == IntOf(ds)
  IN IF Has(body, "-") \/ dots > 1 \/ ds = <<>>
     THEN None
     ELSE Reduce(IF neg THEN 0 - mag ELSE mag, frac)

Separators_mut(s) ==
  IF Has(s, ",") /\ Has(s, ".")
  THEN IF RFind(s, ",") < RFind(s, ".")
       THEN Replace(Remove(s, "."), ",", ".")
       ELSE Remove(s, ",")
  ELSE Replace(s, ",", ".")

\* The branch of _normalize_number that resolves the separators.
Separators(s) ==
  IF Has(s, ",") /\ Has(s, ".")
  THEN IF RFind(s, ",") > RFind(s, ".")
       THEN Replace(Remove(s, "."), ",", ".")
       ELSE Remove(s, ",")
  ELSE Replace(s, ",", ".")

_normalize_number(text) ==
  LET s0 == Strip(Replace(text, "nbsp", " "))
      s1 == NUM_SANITIZE_RX(s0)
  IN IF UNAVAILABLE_RX(s0) THEN None
     ELSE IF s1 = <<>> THEN None
     ELSE ParseFloat(Separators(s1))

(***************************************************************************)
(* Header mapping                                                          *)
(***************************************************************************)
MIN_COLUMNS == <<"Art. No", "Qty", "Price">>

\* Keys of HEADER_PATTERNS in dict (insertion) order.
PatternOrder == <<"Art. No", "Article", "EAN", "Qty", "Price">>

\* \bw\b at token k
WordAt(s, k, w) ==
  Lower(s[k]) = w /\ BoundaryBefore(s, k) /\ BoundaryAfter(s, k)

\* no\.?\b at token j: either a boundary right after "no", or a '.' that is
\* followed by a word character.
NoDotEnd(s, j) ==
  /\ j <= Len(s)
  /\ Lower(s[j]) = "no"
  /\ \/ BoundaryAfter(s, j)
     \/ j + 2 <= Len(s) /\ s[j + 1] = "." /\ IsWordTok(s[j + 2])

\* \bart\.?\s*no\.?\b
ArtNoAlt1(s, k) ==
  /\ Lower(s[k]) = "art"
  /\ BoundaryBefore(s, k)
  /\ LET j == IF k + 1 <= Len(s) /\ s[k + 1] = "." THEN k + 2 ELSE k + 1
     IN NoDotEnd(s, SkipSpaces(s, j))

\* \bart(?:icle)?\s*no\b
ArtNoAlt2(s, k) ==
  /\ Lower(s[k]) \in {"art", "article"}
  /\ BoundaryBefore(s, k)
  /\ LET j == SkipSpaces(s, k + 1)
     IN j <= Len(s) /\ Lower(s[j]) = "no" /\ BoundaryAfter(s, j)

\* \bunit\s*price\b
UnitPriceAt(s, k) ==
  /\ Lower(s[k]) = "unit"
  /\ BoundaryBefore(s, k)
  /\ LET j == SkipSpaces(s, k + 1)
     IN j <= Len(s) /\ Lower(s[j]) = "price" /\ BoundaryAfter(s, j)

\* HEADER_PATTERNS[canon].search(s)
HEADER_PATTERNS(canon, s) ==
  \E k \in 1..Len(s) :
    CASE canon = "Art. No" ->
           ArtNoAlt1(s, k) \/ ArtNoAlt2(s, k) \/ WordAt(s, k, "artnr")
      [] canon = "Article" ->
           WordAt(s, k, "article") \/ WordAt(s, k, "description")
      [] canon = "EAN" -> WordAt(s, k, "ean")
      [] canon = "Qty" -> WordAt(s, k, "qty") \/ WordAt(s, k, "quantity")
      [] canon = "Price" ->
           WordAt(s, k, "price") \/ UnitPriceAt(s, k) \/ WordAt(s, k, "preis")

\* The canonical name at which the inner loop of _map_headers breaks
\* ("" when no pattern matches).
FirstPattern(h_str) ==
  IF \E n \in 1..Len(PatternOrder) : HEADER_PATTERNS(PatternOrder[n], h_str)
  THEN PatternOrder[CHOOSE n \in 1..Len(PatternOrder) :
         /\ HEADER_PATTERNS(PatternOrder[n], h_str)
         /\ \A m \in 1..(n - 1) : ~HEADER_PATTERNS(PatternOrder[m], h_str)]
  ELSE ""

Values(colmap) == {colmap[c] : c \in DOMAIN colmap}

EmptyMap == [c \in {} |-> ""]

MapColumn_mut(mapped, idx, h) ==
  LET canon == FirstPattern(Collapse(h))
  IN IF canon # ""
     THEN [c \in DOMAIN mapped \cup {idx} |->
             IF c = idx THEN canon ELSE mapped[c]]
     ELSE mapped

\* One iteration of the outer loop of _map_headers, for column idx.
MapColumn(mapped, idx, h) ==
  LET canon == FirstPattern(Collapse(h))
  IN IF canon # "" /\ canon \notin Values(mapped)
     THEN [c \in DOMAIN mapped \cup {idx} |->
             IF c = idx THEN canon ELSE mapped[c]]
     ELSE mapped

RECURSIVE MapFrom(_, _, _)
MapFrom(raw_headers, idx, mapped) ==
  IF idx >= Len(raw_headers) THEN mapped
  ELSE With(MapColumn(mapped, idx, raw_headers[idx + 1]),
            LAMBDA m : MapFrom(raw_headers, idx + 1, m))

\* Column indices are 0-based, as in the source.
_map_headers(raw_headers) == MapFrom(raw_headers, 0, EmptyMap)

_score_header_map(colmap) ==
  LET mapped == Values(colmap)
  IN <<Cardinality({n \in 1..Len(MIN_COLUMNS) : MIN_COLUMNS[n] \in mapped}),
       Cardinality(mapped)>>

\* Python tuple comparison a > b
ScoreGT(a, b) == a[1] > b[1] \/ (a[1] = b[1] /\ a[2] > b[2])

max_scan == 6

Min(a, b) == IF a < b THEN a ELSE b

HeaderCells(row) == [c \in 1..Len(row) |-> Strip(Collapse(row[c]))]

ScanRow_mut(df, r, best) ==
  LET colmap == _map_headers(HeaderCells(df[r + 1]))
      score  == _score_header_map(colmap)
  IN IF ScoreGT(score, best.score) \/ score = best.score
     THEN [row |-> r, colmap |-> colmap, score |-> score]
     ELSE best

\* One iteration of the loop of _find_header_row, for the 0-based row r.
ScanRow(df, r, best) ==
  With(_map_headers(HeaderCells(df[r + 1])),
       LAMBDA colmap :
         LET score == _score_header_map(colmap)
         IN IF ScoreGT(score, best.score)
            THEN [row |-> r, colmap |-> colmap, score |-> score]
            ELSE best)

RECURSIVE ScanFrom(_, _, _)
ScanFrom(df, r, best) ==
  IF r >= Min(max_scan, Len(df)) THEN best
  ELSE With(ScanRow(df, r, best), LAMBDA b : ScanFrom(df, r + 1, b))

_find_header_row(df) ==
  ScanFrom(df, 0, [row |-> -1, colmap |-> EmptyMap, score |-> <<0, 0>>])

(***************************************************************************)
(* Reference codes (AU / Invoice)                                          *)
(***************************************************************************)
\* Number of consecutive digit tokens starting at k.
RECURSIVE DigitRun(_, _)
DigitRun(s, k) ==
  IF k <= Len(s) /\ s[k] \in Digits THEN 1 + DigitRun(s, k + 1) ELSE 0

\* \bAU\d{7,8}\b matches at token k (case-sensitive).
AUAt(s, k) ==
  /\ s[k] = "AU"
  /\ BoundaryBefore(s, k)
  /\ DigitRun(s, k + 1) \in {7, 8}
  /\ BoundaryAfter(s, k + DigitRun(s, k + 1))

\* re.findall(r"\bAU\d{7,8}\b", text), scanning from token k.
RECURSIVE FindAU(_, _)
FindAU(s, k) ==
  IF k > Len(s) THEN <<>>
  ELSE IF AUAt(s, k)
       THEN <<SubSeq(s, k, k + DigitRun(s, k + 1))>>
              \o FindAU(s, k + DigitRun(s, k + 1) + 1)
       ELSE FindAU(s, k + 1)

\* [:\s]*
RECURSIVE SkipColonSpaces(_, _)
SkipColonSpaces(s, k) ==
  IF k <= Len(s) /\ s[k] \in Spaces \cup {":"}
  THEN SkipColonSpaces(s, k + 1) ELSE k

\* Length of the run matched by [A-Z0-9\-]+ (re.I) starting at token k.
RECURSIVE CodeRun(_, _)
CodeRun(s, k) ==
  IF k <= Len(s) /\ (IsWordTok(s[k]) \/ s[k] = "-")
  THEN 1 + CodeRun(s, k + 1) ELSE 0

\* Start of the captured group when (?:Invoice\s*No[:\s]*)([A-Z0-9\-]+)
\* matches at token k, 0 when it does not.
InvCapture(s, k) ==
  IF Lower(s[k]) # "invoice" THEN 0
  ELSE LET j == SkipSpaces(s, k + 1)
       IN IF j > Len(s) \/ Lower(s[j]) # "no" THEN 0
          ELSE LET m == SkipColonSpaces(s, j + 1)
               IN IF CodeRun(s, m) > 0 THEN m ELSE 0

\* re.findall of the invoice pattern, scanning from token k; matches do not
\* overlap.
RECURSIVE FindInv(_, _)
FindInv(s, k) ==
  IF k > Len(s) THEN <<>>
  ELSE LET m == InvCapture(s, k)
       IN IF m > 0
          THEN <<SubSeq(s, m, m + CodeRun(s, m) - 1)>>
                 \o FindInv(s, m + CodeRun(s, m))
          ELSE FindInv(s, k + 1)

InSeq(x, xs) == \E k \in 1..Len(xs) : xs[k] = x

RECURSIVE DedupeFrom_mut(_, _, _)
DedupeFrom_mut(values, k, out) ==
  IF k > Len(values) THEN out
  ELSE LET v == Strip(values[k])
       IN IF v = <<>>
          THEN DedupeFrom_mut(values, k + 1, out)
          ELSE DedupeFrom_mut(values, k + 1, Append(out, v))

\* The loop of _dedupe_join: out after the values from k on are consumed.
RECURSIVE DedupeFrom(_, _, _)
DedupeFrom(values, k, out) ==
  IF k > Len(values) THEN out
  ELSE LET v == Strip(values[k])
       IN IF v = <<>> \/ InSeq(v, out)
          THEN DedupeFrom(values, k + 1, out)
          ELSE DedupeFrom(values, k + 1, Append(out, v))

\* ", ".join(out)
RECURSIVE Join(_)
Join(out) ==
  IF out = <<>> THEN <<>>
  ELSE IF Len(out) = 1 THEN out[1]
  ELSE out[1] \o <<",", " ">> \o Join(Tail(out))

_dedupe_join(values) == Join(DedupeFrom(values, 1, <<>>))

_extract_au_invoice(page_text_top) ==
  _dedupe_join(FindAU(page_text_top, 1) \o FindInv(page_text_top, 1))

\* Lines 152-154: the top-region text first, the whole page text when the
\* top region gives the empty string.
PageAuInvoice(crop_text, text) ==
  LET au_invoice == _extract_au_invoice(crop_text)
  IN IF au_invoice = <<>> THEN _extract_au_invoice(text) ELSE au_invoice

(***************************************************************************)
(* Table selection (lines 169-181)                                         *)
(***************************************************************************)
NoBest ==
  [found |-> FALSE, table |-> 0, header_row |-> -1, colmap |-> EmptyMap,
   score |-> <<0, 0>>, rows |-> 0]

\* df.empty or len(df) < 2
EmptyOrShort(df) == Len(df) < 2 \/ Len(df[1]) = 0

SelectStep_mut(best, t, k) ==
  IF EmptyOrShort(t) THEN best
  ELSE With(_find_header_row(t),
            LAMBDA h :
              IF \/ ~best.found
                 \/ ScoreGT(h.score, best.score)
                 \/ (h.score = best.score /\ Len(t) >= best.rows)
              THEN [found |-> TRUE, table |-> k, header_row |-> h.row,
                    colmap |-> h.colmap, score |-> h.score, rows |-> Len(t)]
              ELSE best)

\* The body of the loop over the candidate tables; k is the position of t
\* in the detector's output and stands for best["table"].
SelectStep(best, t, k) ==
  IF EmptyOrShort(t) THEN best
  ELSE With(_find_header_row(t),
            LAMBDA h :
              IF \/ ~best.found
                 \/ ScoreGT(h.score, best.score)
                 \/ (h.score = best.score /\ Len(t) > best.rows)
              THEN [found |-> TRUE, table |-> k, header_row |-> h.row,
                    colmap |-> h.colmap, score |-> h.score, rows |-> Len(t)]
              ELSE best)

RECURSIVE SelectFrom(_, _, _)
SelectFrom(tables, k, best) ==
  IF k > Len(tables) THEN best
  ELSE With(SelectStep(best, tables[k], k),
            LAMBDA b : SelectFrom(tables, k + 1, b))

SelectBest(tables) == SelectFrom(tables, 1, NoBest)

(***************************************************************************)
(* Row extraction (lines 188-235)                                          *)
(***************************************************************************)
Zero == [kind |-> "num", num |-> 0, scale |-> 0]

\* The 0-based column mapped to canon.
ColumnOf(colmap, canon) == CHOOSE c \in DOMAIN colmap : colmap[c] = canon

\* acc[canon].iloc[r] for a row of the table: the cell, whitespace collapsed;
\* the row loop strips it again.
AccCell(colmap, row, canon) ==
  IF canon \in Values(colmap)
  THEN Strip(Collapse(row[ColumnOf(colmap, canon) + 1]))
  ELSE <<>>

\* " ".join(col.iloc[r] for col in acc.values()).lower(), the columns of
\* acc being in the insertion order of colmap (ascending column index).
RECURSIVE RowConcatFrom(_, _, _, _)
RowConcatFrom(colmap, row, c, first) ==
  IF c >= Len(row) THEN <<>>
  ELSE IF c \in DOMAIN colmap
       THEN (IF first THEN <<>> ELSE <<" ">>)
              \o LowerSeq(Collapse(row[c + 1]))
              \o RowConcatFrom(colmap, row, c + 1, FALSE)
       ELSE RowConcatFrom(colmap, row, c + 1, first)

RowConcat(colmap, row) == RowConcatFrom(colmap, row, 0, TRUE)

OrZero(v) == IF v = None THEN Zero ELSE v

QtyVal_mut(colmap, row) ==
  LET qty_raw == AccCell(colmap, row, "Qty")
  IN IF UNAVAILABLE_RX(qty_raw)
     THEN Zero
     ELSE OrZero(_normalize_number(qty_raw))

QtyVal(colmap, row) ==
  LET qty_raw == AccCell(colmap, row, "Qty")
  IN IF UNAVAILABLE_RX(qty_raw) \/ UNAVAILABLE_RX(RowConcat(colmap, row))
     THEN Zero
     ELSE OrZero(_normalize_number(qty_raw))

PriceVal(colmap, row) == OrZero(_normalize_number(AccCell(colmap, row, "Price")))

\* int(qty_val) if qty_val.is_integer() else qty_val
RenderQty(v) ==
  IF v.scale = 0 THEN [kind |-> "int", num |-> v.num, scale |-> 0] ELSE v

SkipRow_mut(art, qty_val, price_val) == art = <<>> /\ qty_val.num = 0

\* Line 223: the row is skipped
SkipRow(art, qty_val, price_val) ==
  art = <<>> /\ qty_val.num = 0 /\ price_val.num = 0

RowItems_mut(colmap, row, i, au_invoice) ==
  LET art       == AccCell(colmap, row, "Art. No")
      qty_val   == QtyVal(colmap, row)
      price_val == PriceVal(colmap, row)
  IN IF SkipRow(art, qty_val, price_val) THEN <<>>
     ELSE <<[art |-> art, qty |-> RenderQty(qty_val), price |-> price_val,
             page |-> i - 1, au |-> au_invoice]>>

\* The body of the row loop: the rows it appends to all_rows (none or one).
RowItems(colmap, row, i, au_invoice) ==
  LET art       == AccCell(colmap, row, "Art. No")
      qty_val   == QtyVal(colmap, row)
      price_val == PriceVal(colmap, row)
  IN IF SkipRow(art, qty_val, price_val) THEN <<>>
     ELSE <<[art |-> art, qty |-> RenderQty(qty_val), price |-> price_val,
             page |-> i, au |-> au_invoice]>>

\* df = df.iloc[header_row + 1:], then the loop over its rows from row r on
\* (r is 1-based in the table).
RECURSIVE ExtractFrom(_, _, _, _, _)
ExtractFrom(df, r, colmap, i, au_invoice) ==
  IF r > Len(df) THEN <<>>
  ELSE RowItems(colmap, df[r], i, au_invoice)
         \o ExtractFrom(df, r + 1, colmap, i, au_invoice)

ExtractRows(df, header_row, colmap, i, au_invoice) ==
  ExtractFrom(df, header_row + 2, colmap, i, au_invoice)

(***************************************************************************)
(* One page of extract_pdf_to_excel (lines 146-235)                        *)
(***************************************************************************)
Incomplete_mut(best) == best.score[1] < Len(MIN_COLUMNS) - 1

\* Line 184: the best header does not contain all of MIN_COLUMNS.
Incomplete(best) == best.score[1] < Len(MIN_COLUMNS)

LogEntry(i, msg, colmap, n) ==
  [page |-> i, msg |-> msg, colmap |-> colmap, n |-> n]

\* page.extract_text() or ""
OrEmpty(res) == IF res.kind = "text" THEN res.val ELSE <<>>

\* Lines 157-163: lattice first, stream when lattice finds no table; an
\* exception of either call is logged and leaves no tables.
CamelotRaised(lattice, stream) ==
  \/ lattice.kind = "raise"
  \/ (Len(lattice.tables) = 0 /\ stream.kind = "raise")

CamelotTables(lattice, stream) ==
  IF CamelotRaised(lattice, stream) THEN <<>>
  ELSE IF Len(lattice.tables) = 0 THEN stream.tables
  ELSE lattice.tables

\* The collaborator call that raised on this page ("none" when none did).
Raised(full, crop, lattice, stream) ==
  IF full.kind = "raise" THEN "text"
  ELSE IF crop.kind = "raise" THEN "crop"
  ELSE IF lattice.kind = "raise" THEN "lattice"
  ELSE IF Len(lattice.tables) = 0 /\ stream.kind = "raise" THEN "stream"
  ELSE "none"

\* An exception of the text extractor is not caught inside the page loop
\* (lines 147-154 are outside the try): it leaves extract_pdf_to_excel.
Propagates(full, crop) == full.kind = "raise" \/ crop.kind = "raise"

\* Lines 165-235: the branches of the loop body once the tables are read
\* and the best one is selected.
PageOutcome(i, text, crop_text, au_invoice, errlog, tables, best) ==
  LET base == [au |-> au_invoice, crop_text |-> crop_text, text |-> text,
               best |-> NoBest, rows |-> <<>>, df |-> <<>>]
  IN IF Len(tables) = 0
     THEN base @@
          [outcome |-> "no tables",
           logs |-> errlog \o <<LogEntry(i, "no tables found", EmptyMap, 0)>>]
     ELSE IF ~best.found
     THEN base @@
          [outcome |-> "short",
           logs |-> <<LogEntry(i, "table empty/short", EmptyMap, 0)>>]
     ELSE IF Incomplete(best)
     THEN [base EXCEPT !.best = best, !.df = tables[best.table]] @@
          [outcome |-> "incomplete",
           logs |-> <<LogEntry(i, "header mapping incomplete",
                               best.colmap, 0)>>]
     ELSE With(ExtractRows(tables[best.table], best.header_row,
                           best.colmap, i, au_invoice),
               LAMBDA rows :
                 [base EXCEPT !.best = best, !.rows = rows,
                              !.df = tables[best.table]] @@
                 [outcome |-> "added",
                  logs |-> <<LogEntry(i, "added rows", EmptyMap, Len(rows))>>])

\* The outcome of the loop body for page i: the rows it appends to
\* all_rows, the entries it appends to logs, and what it computed.
PageBody(i, full, crop, lattice, stream) ==
  LET text      == OrEmpty(full)
      crop_text == OrEmpty(crop)
      errlog    == IF CamelotRaised(lattice, stream)
                   THEN <<LogEntry(i, "camelot error", EmptyMap, 0)>>
                   ELSE <<>>
      tables    == CamelotTables(lattice, stream)
  IN With(PageAuInvoice(crop_text, text),
          LAMBDA au_invoice :
            With(SelectBest(tables),
                 LAMBDA best :
                   PageOutcome(i, text, crop_text, au_invoice, errlog,
                               tables, best)))

(***************************************************************************)
(* Inputs of the document run                                              *)
(***************************************************************************)
MaxPages == 2

MaxTables == 1

cArtNo == <<"Art", ".", " ", "No">>

cQty == <<"Qty">>

cUnitPrice == <<"Unit", "\n", "Price">>

cDescription == <<"Description">>

cEAN == <<"EAN", "-", "code">>

cTotal == <<"total">>

cBlank == <<>>

c123 == <<"1", "2", "3">>

c5 == <<"5">>

c0 == <<"0">>

cPrice == <<"5", ",", "0", "0">>

cNotAvailable == <<"not", " ", "available">>

HFull == <<cArtNo, cQty, cUnitPrice>>

HPart == <<cArtNo, cQty, cTotal>>

Banner == <<cTotal, cBlank, cBlank>>

DGood == <<c123, c5, cPrice>>

DSoldOut == <<c5, cNotAvailable, c0>>

DBlank == <<cBlank, cBlank, cBlank>>

DocTables ==
  { <<Banner, HFull, DGood, DBlank, DSoldOut>>,
    <<HPart, DGood>>,
    <<Banner, DGood>>,
    <<HFull>> }

SeqsUpTo(S, n) == UNION {[1..k -> S] : k \in 0..n}

NotCalled == [kind |-> "not called", tables |-> <<>>]

DetectorResults ==
  {[kind |-> "raise", tables |-> <<>>]}
    \cup {[kind |-> "ok", tables |-> ts] : ts \in SeqsUpTo(DocTables, MaxTables)}

tAU == <<"AU", "1", "2", "3", "4", "5", "6", "7">>

tInvoice == <<"Invoice", " ", "No", ":", " ", "INV", "-", "9", "9">>

\* Results of page.extract_text(): an exception, None, or the text.
FullTexts ==
  { [kind |-> "raise", val |-> <<>>],
    [kind |-> "none", val |-> <<>>],
    [kind |-> "text", val |-> tInvoice] }

\* Results of page.within_bbox(...).extract_text()
CropTexts ==
  { [kind |-> "raise", val |-> <<>>],
    [kind |-> "text", val |-> <<>>],
    [kind |-> "text", val |-> tAU] }

(***************************************************************************)
(* The document run                                                        *)
(***************************************************************************)
NoCur ==
  [raised |-> "none", outcome |-> "none", au |-> <<>>, crop_text |-> <<>>,
   text |-> <<>>, best |-> NoBest, df |-> <<>>, added |-> 0]

Init ==
  /\ pc = "run"
  /\ page_i = 0
  /\ all_rows = <<>>
  /\ logs = <<>>
  /\ cur = NoCur
  /\ fn_in = <<>>
  /\ fn_out = <<>>

\* One iteration of the loop over pdf.pages.  cur records what the
\* iteration computed (it is not program state).
ProcessPage ==
  /\ pc = "run"
  /\ page_i < MaxPages
  /\ \E full \in FullTexts, crop \in CropTexts :
       \E lattice \in IF Propagates(full, crop)
                      THEN {NotCalled} ELSE DetectorResults :
       \E stream \in IF lattice.kind = "ok" /\ Len(lattice.tables) = 0
                     THEN DetectorResults ELSE {NotCalled} :
         LET i == page_i + 1
         IN /\ page_i' = i
            /\ IF Propagates(full, crop)
               THEN /\ pc' = "aborted"
                    /\ cur' = [NoCur EXCEPT
                                 !.raised = Raised(full, crop, lattice, stream),
                                 !.outcome = "abort"]
                    /\ UNCHANGED <<all_rows, logs>>
               ELSE \E b \in {PageBody(i, full, crop, lattice, stream)} :
                       /\ pc' = "run"
                       /\ all_rows' = all_rows \o b.rows
                       /\ logs' = logs \o b.logs
                       /\ cur' = [raised |-> Raised(full, crop, lattice, stream),
                                  outcome |-> b.outcome, au |-> b.au,
                                  crop_text |-> b.crop_text, text |-> b.text,
                                  best |-> b.best, df |-> b.df,
                                  added |-> Len(b.rows)]
  /\ UNCHANGED <<fn_in, fn_out>>

\* The loop over the pages ends and the workbook is written.
Finish ==
  /\ pc = "run"
  /\ pc' = "done"
  /\ UNCHANGED <<page_i, all_rows, logs, cur, fn_in, fn_out>>

Next == ProcessPage \/ Finish

Spec == Init /\ [][Next]_vars

(***************************************************************************)
(* Properties of the document run                                          *)
(***************************************************************************)
RowsOfPage(i) == {k \in 1..Len(all_rows) : all_rows[k].page = i}

\* C3: rows of a page are appended only when the selected header maps all
\* three required fields; when the best candidate maps fewer, the page
\* appends no row and its log entry is "header mapping incomplete" with the
\* partial column map; rows are never extracted with header row -1.
C3_RequiredFields ==
  /\ cur.outcome = "added" =>
       cur.best.score[1] = 3 /\ cur.best.header_row >= 0
  /\ RowsOfPage(page_i) # {} =>
       cur.outcome = "added" /\ cur.best.score[1] = 3
  /\ cur.best.found /\ cur.best.score[1] < 3 =>
       /\ cur.added = 0
       /\ RowsOfPage(page_i) = {}
       /\ logs # <<>>
       /\ logs[Len(logs)] =
            LogEntry(page_i, "header mapping incomplete", cur.best.colmap, 0)

C3_Witness ==
  /\ cur.outcome = "incomplete"
  /\ cur.best.score = <<2, 2>>
  /\ cur.best.colmap = (0 :> "Art. No" @@ 1 :> "Qty")
  /\ page_i = 2
  /\ Len(all_rows) = 2

\* C4: a collaborator call that fails on a page never aborts the run: the
\* page appends no row, at least one log entry is appended, and the loop
\* goes on.
C4_PageFailureNeverAborts ==
  [][(page_i' # page_i /\ cur'.raised # "none") =>
       /\ pc' = "run"
       /\ all_rows' = all_rows
       /\ Len(logs') > Len(logs)]_vars

\* The appended rows follow the order of the data rows of the table.
InTableOrder(new, df, best) ==
  \E f \in [1..Len(new) -> (best.header_row + 2)..Len(df)] :
    /\ \A a, b \in 1..Len(new) : a < b => f[a] < f[b]
    /\ \A a \in 1..Len(new) :
         new[a].art = AccCell(best.colmap, df[f[a]], "Art. No")

C7_State ==
  \A k \in 1..Len(all_rows) :
    /\ all_rows[k].page \in 1..page_i
    /\ k > 1 => all_rows[k - 1].page <= all_rows[k].page
    /\ \A j \in 1..Len(all_rows) :
         all_rows[j].page = all_rows[k].page => all_rows[j].au = all_rows[k].au

C7_Step ==
  /\ Len(all_rows') >= Len(all_rows)
  /\ SubSeq(all_rows', 1, Len(all_rows)) = all_rows
  /\ LET new == SubSeq(all_rows', Len(all_rows) + 1, Len(all_rows'))
     IN /\ \A k \in 1..Len(new) :
             /\ new[k].page = page_i'
             /\ new[k].au = PageAuInvoice(cur'.crop_text, cur'.text)
        /\ new # <<>> => InTableOrder(new, cur'.df, cur'.best)

\* C7: all_rows is the concatenation, in page order, of the rows retained
\* from each page in table order: pages are non-decreasing, appended rows
\* are never reordered or removed, and every row carries the 1-based page
\* number and the reference code of its page.
C7_PageOrder == [](C7_State) /\ [][C7_Step]_vars

C7_Witness ==
  /\ Len(all_rows) = 4
  /\ all_rows[2].page = 1
  /\ all_rows[3].page = 2
  /\ all_rows[1].au = tAU
  /\ all_rows[4].au = <<"INV", "-", "9", "9">>
  /\ all_rows[3].art = c123
  /\ all_rows[4].art = c5

(***************************************************************************)
(* _normalize_number applied to bounded inputs                             *)
(***************************************************************************)
MaxNumLen == 4

NumAlphabet == {"1", "0", ",", ".", "-", " ", "x"}

ex_eu == <<"1", ".", "1", "0", "9", ",", "2", "0">>

ex_us == <<"1", ",", "1", "0", "9", ".", "2", "0">>

ex_plain == <<"1", "1", "0", "9", ".", "2", "0">>

ex_nbsp == <<"1", "nbsp", "1", "0", "9", ",", "2", "0", " ">>

NormInputs ==
  SeqsUpTo(NumAlphabet, MaxNumLen)
    \cup {ex_eu, ex_us, ex_plain, ex_nbsp, cNotAvailable,
          <<"Sold", "\n", "out">>}

IdleRun ==
  /\ pc = "ready"
  /\ page_i = 0
  /\ all_rows = <<>>
  /\ logs = <<>>
  /\ cur = NoCur
  /\ fn_out = <<>>

InitNorm == IdleRun /\ fn_in \in NormInputs

NormalizeStep ==
  /\ pc = "ready"
  /\ pc' = "done"
  /\ fn_out' = _normalize_number(fn_in)
  /\ UNCHANGED <<page_i, all_rows, logs, cur, fn_in>>

NextNorm == NormalizeStep

SpecNorm == InitNorm /\ [][NextNorm]_vars

Count(s, c) == Cardinality({k \in 1..Len(s) : s[k] = c})

\* Position of the last separator of either kind (0 when there is none).
LastSep(s) ==
  IF RFind(s, ",") > RFind(s, ".") THEN RFind(s, ",") ELSE RFind(s, ".")

DigitsAfter(s, p) == Cardinality({k \in (p + 1)..Len(s) : s[k] \in Digits})

\* The number whose digits are those of s and whose decimal point stands
\* at the last separator of s.
PointAtLastSep(s) ==
  LET mag == IntOf(SelectSeq(s, IsDigit))
  IN Reduce(IF Has(s, "-") THEN 0 - mag ELSE mag, DigitsAfter(s, LastSep(s)))

\* C9: without an 'unavailable' marker, with both separators the later one
\* is the decimal point and the earlier kind is dropped, and with commas
\* only the comma is the decimal point; "1.109,20", "1,109.20" and
\* "1109.20" all give 1109.20; an empty or digit-free input gives no value.
C9_Separators ==
  (pc = "done" /\ ~UNAVAILABLE_RX(fn_in)) =>
    LET s    == NUM_SANITIZE_RX(fn_in)
        both == Has(s, ",") /\ Has(s, ".")
        only == Has(s, ",") /\ ~Has(s, ".")
        plainDigits == ~Has(s, "-") /\ Count(s, s[LastSep(s)]) = 1
                         /\ SelectSeq(s, IsDigit) # <<>>
    IN /\ (both \/ only) /\ fn_out # None => fn_out = PointAtLastSep(s)
       /\ (both \/ only) /\ plainDigits => fn_out = PointAtLastSep(s)
       /\ fn_in \in {ex_eu, ex_us, ex_plain, ex_nbsp} =>
            fn_out = [kind |-> "num", num |-> 11092, scale |-> 1]
       /\ SelectSeq(s, IsDigit) = <<>> => fn_out = None

C9_Witness ==
  /\ pc = "done"
  /\ fn_in = ex_eu
  /\ fn_out = [kind |-> "num", num |-> 11092, scale |-> 1]

(***************************************************************************)
(* _map_headers applied to bounded header rows                             *)
(***************************************************************************)
MaxCols == 3

cArticleNo == <<"Article", "\n", " ", "No">>

cArticleQty == <<" ", "Article", " ", "Qty">>

cArtNoDot == <<"art", "no", ".">>

cUnitprice == <<"unit", "price">>

cNote == <<"Qty", "5">>

HeaderCellSet ==
  {cArtNo, cArticleNo, cArticleQty, cArtNoDot, cDescription, cQty,
   cUnitPrice, cUnitprice, cEAN, cTotal, cNote, cBlank}

InitMap == IdleRun /\ fn_in \in SeqsUpTo(HeaderCellSet, MaxCols)

MapStep ==
  /\ pc = "ready"
  /\ pc' = "done"
  /\ fn_out' = _map_headers(fn_in)
  /\ UNCHANGED <<page_i, all_rows, logs, cur, fn_in>>

NextMap == MapStep

SpecMap == InitMap /\ [][NextMap]_vars

\* The collapsed text of the 0-based column c matches the pattern of canon.
ColumnMatches(c, canon) == HEADER_PATTERNS(canon, Collapse(fn_in[c + 1]))

\* Columns map to one field each and every field occurs at most once.
OneColumnPerField ==
  /\ DOMAIN fn_out \subseteq 0..(Len(fn_in) - 1)
  /\ \A c \in DOMAIN fn_out :
       /\ \E n \in 1..Len(PatternOrder) : fn_out[c] = PatternOrder[n]
       /\ \A d \in DOMAIN fn_out : fn_out[d] = fn_out[c] => d = c

\* C6 as stated: a field that is present sits on the lowest-index column
\* whose text matches the pattern of that field.
C6_LowestMatchingColumn ==
  pc = "done" =>
    /\ OneColumnPerField
    /\ \A c \in DOMAIN fn_out :
         /\ ColumnMatches(c, fn_out[c])
         /\ \A d \in 0..(c - 1) : ~ColumnMatches(d, fn_out[c])

\* The field of column c: the first pattern, in the order of
\* HEADER_PATTERNS, that matches its collapsed text.
FieldOfColumn(c) ==
  IF \E n \in 1..Len(PatternOrder) : ColumnMatches(c, PatternOrder[n])
  THEN LET n == CHOOSE n \in 1..Len(PatternOrder) :
                  /\ ColumnMatches(c, PatternOrder[n])
                  /\ \A m \in 1..(n - 1) : ~ColumnMatches(c, PatternOrder[m])
       IN PatternOrder[n]
  ELSE ""

\* C6 (amended): columns map to one field each, every field occurs at most
\* once, and a field is present exactly when it is the first matching
\* pattern of some column; it then sits on the lowest-index such column.
\* A row without matches gives the empty map.
C6_FirstPatternColumn ==
  pc = "done" =>
    /\ OneColumnPerField
    /\ \A c \in DOMAIN fn_out :
         /\ FieldOfColumn(c) = fn_out[c]
         /\ \A d \in 0..(c - 1) : FieldOfColumn(d) # fn_out[c]
    /\ \A c \in 0..(Len(fn_in) - 1) :
         FieldOfColumn(c) # "" => FieldOfColumn(c) \in Values(fn_out)
    /\ (\A c \in 0..(Len(fn_in) - 1) : FieldOfColumn(c) = "") =>
         fn_out = EmptyMap

C6_Witness ==
  /\ pc = "done"
  /\ fn_in = <<cArticleNo, cDescription, cArtNo>>
  /\ fn_out = (0 :> "Art. No" @@ 1 :> "Article")

(***************************************************************************)
(* Reference-code extraction applied to bounded page texts                 *)
(***************************************************************************)
MaxSegments == 2

tAU8 == <<"AU", "7", "6", "5", "4", "3", "2", "1", "0">>

\* six digits only: not a reference code
tAU6 == <<"AU", "1", "2", "3", "4", "5", "6">>

\* an invoice label whose token is itself an AU code
tInvoiceAU == <<"Invoice", "No", " ">> \o tAU

tNoise == <<"Invoice", " ", "total", ":">>

Segments == {tAU, tAU8, tAU6, tInvoice, tInvoiceAU, tNoise}

RECURSIVE JoinSegments(_)
JoinSegments(segs) ==
  IF segs = <<>> THEN <<>>
  ELSE IF Len(segs) = 1 THEN segs[1]
  ELSE segs[1] \o <<"\n">> \o JoinSegments(Tail(segs))

ex_ref == JoinSegments(<<tAU, tAU, tInvoice>>)

RefTexts ==
  {JoinSegments(segs) : segs \in SeqsUpTo(Segments, MaxSegments)}
    \cup {ex_ref}

InitRef ==
  /\ IdleRun
  /\ fn_in \in [crop_text : RefTexts, text : RefTexts]

RefStep ==
  /\ pc = "ready"
  /\ pc' = "done"
  /\ fn_out' = PageAuInvoice(fn_in.crop_text, fn_in.text)
  /\ UNCHANGED <<page_i, all_rows, logs, cur, fn_in>>

NextRef == RefStep

SpecRef == InitRef /\ [][NextRef]_vars

\* The codes listed in a ", "-joined string.
RECURSIVE SplitCodes(_, _)
SplitCodes(str, acc) ==
  IF str = <<>> THEN (IF acc = <<>> THEN <<>> ELSE <<acc>>)
  ELSE IF Len(str) >= 2 /\ str[1] = "," /\ str[2] = " "
       THEN <<acc>> \o SplitCodes(SubSeq(str, 3, Len(str)), <<>>)
       ELSE SplitCodes(Tail(str), Append(acc, Head(str)))

\* All matches in a text: the AU-style ones, then the invoice-label ones.
Matches(str) == FindAU(str, 1) \o FindInv(str, 1)

FirstIndex(x, xs) == CHOOSE k \in 1..Len(xs) : xs[k] = x /\ \A j \in 1..(k - 1) : xs[j] # x

\* codes lists every distinct match once, in the order of first occurrence.
ListsOnce(codes, ms) ==
  /\ {codes[k] : k \in 1..Len(codes)} = {ms[k] : k \in 1..Len(ms)}
  /\ \A a, b \in 1..Len(codes) :
       a < b => FirstIndex(codes[a], ms) < FirstIndex(codes[b], ms)

C8_FallbackWitness ==
  /\ pc = "done"
  /\ fn_in.crop_text = tNoise
  /\ fn_in.text = JoinSegments(<<tInvoiceAU, tAU8>>)
  /\ fn_out = tAU \o <<",", " ">> \o tAU8

(***************************************************************************)
(* _find_header_row applied to bounded tables                              *)
(***************************************************************************)
MaxScanRows == 7

ScanRowSet == {Banner, HPart, HFull}

InitHeader ==
  /\ IdleRun
  /\ fn_in \in UNION {[1..n -> ScanRowSet] : n \in 1..MaxScanRows}

HeaderStep ==
  /\ pc = "ready"
  /\ pc' = "done"
  /\ fn_out' = _find_header_row(fn_in)
  /\ UNCHANGED <<page_i, all_rows, logs, cur, fn_in>>

NextHeader == HeaderStep

SpecHeader == InitHeader /\ [][NextHeader]_vars

\* HeaderScore of the 0-based row r of table df.
RowScore(df, r) == _score_header_map(_map_headers(df[r + 1]))

\* r is the lowest-index row among the first K rows of df whose score is
\* the maximum over those rows.
FirstBestRow(df, r, K) ==
  LET rows == 0..(Min(K, Len(df)) - 1)
  IN /\ r \in rows
     /\ \A q \in rows : ~ScoreGT(RowScore(df, q), RowScore(df, r))
     /\ \A q \in rows : q < r => RowScore(df, q) # RowScore(df, r)

\* C2 as stated: the header row chosen is the first row with the best
\* score among the first 50 rows, so a header row below index 50 that
\* scores above the rows before it (and is not beaten later) is chosen.
C2_FirstBestOf50 ==
  pc = "done" =>
    /\ fn_out.row # -1 => FirstBestRow(fn_in, fn_out.row, 50)
    /\ \A r \in 0..(Min(50, Len(fn_in)) - 1) :
         (RowScore(fn_in, r) # <<0, 0>> /\ FirstBestRow(fn_in, r, 50))
           => fn_out.row = r

\* C2 (amended): the header row is the first row with the best score among
\* the first 6 rows (all rows if fewer), provided some scanned row matches a
\* field; when none does, no header row is chosen (index -1, empty map).
C2_FirstBestOf6 ==
  pc = "done" =>
    IF \E q \in 0..(Min(6, Len(fn_in)) - 1) : RowScore(fn_in, q) # <<0, 0>>
    THEN /\ FirstBestRow(fn_in, fn_out.row, 6)
         /\ fn_out.score = RowScore(fn_in, fn_out.row)
         /\ fn_out.colmap = _map_headers(fn_in[fn_out.row + 1])
    ELSE fn_out = [row |-> -1, colmap |-> EmptyMap, score |-> <<0, 0>>]

C2_Witness ==
  /\ pc = "done"
  /\ fn_in = <<Banner, HPart, Banner, Banner, Banner, HFull, HFull>>
  /\ fn_out.row = 5
  /\ fn_out.score = <<3, 3>>

(***************************************************************************)
(* Table selection applied to bounded candidate lists                      *)
(***************************************************************************)
MaxCandidates == 2

MaxCandRows == 3

H35 == <<cArtNo, cQty, cUnitPrice, cDescription, cEAN>>

H22 == <<cArtNo, cQty, cTotal, cBlank, cBlank>>

D5 == <<c123, c5, cPrice, cBlank, cBlank>>

\* Tables of header-like rows, and one table without any header.
CandidateTables ==
  UNION {[1..n -> {H35, H22}] : n \in 1..MaxCandRows} \cup {<<D5, D5>>}

InitSelect ==
  /\ IdleRun
  /\ fn_in \in SeqsUpTo(CandidateTables, MaxCandidates)

SelectTableStep ==
  /\ pc = "ready"
  /\ pc' = "done"
  /\ fn_out' = SelectBest(fn_in)
  /\ UNCHANGED <<page_i, all_rows, logs, cur, fn_in>>

NextSelect == SelectTableStep

SpecSelect == InitSelect /\ [][NextSelect]_vars

\* Candidates with at least 2 rows
Eligible == {k \in 1..Len(fn_in) : Len(fn_in[k]) >= 2}

BestScore(k) == _find_header_row(fn_in[k]).score

\* C1: among the candidates with at least 2 rows the selected one has the
\* lexicographically highest best HeaderScore; among those the most rows;
\* among those it is the first in the detector's order.  A (3,5) candidate
\* beats a (2,2) candidate whatever their row counts and order.
C1_BestTable ==
  pc = "done" =>
    /\ fn_out.found <=> Eligible # {}
    /\ fn_out.found =>
         /\ fn_out.table \in Eligible
         /\ fn_out.score = BestScore(fn_out.table)
         /\ fn_out.rows = Len(fn_in[fn_out.table])
         /\ \A k \in Eligible : \A sc \in {BestScore(k)} :
              /\ ~ScoreGT(sc, fn_out.score)
              /\ sc = fn_out.score =>
                   /\ Len(fn_in[k]) <= fn_out.rows
                   /\ Len(fn_in[k]) = fn_out.rows => fn_out.table <= k
              /\ sc = <<3, 5>> => fn_out.score = <<3, 5>>

C1_Witness ==
  /\ pc = "done"
  /\ fn_in = << <<H22, H22, H22>>, <<H22, H35>> >>
  /\ fn_out.table = 2
  /\ fn_out.score = <<3, 5>>
  /\ fn_out.rows = 2

(***************************************************************************)
(* The row loop applied to bounded data rows                               *)
(***************************************************************************)
HDesc == <<cDescription, cArtNo, cQty, cUnitPrice>>

HPlain == <<cTotal, cArtNo, cQty, cUnitPrice>>

cSold == <<"Sold">>

cOut == <<"out">>

cSoldOut == <<"sold", " ", "out">>

cDrill == <<"x">>

c1c5 == <<" ", "1", ",", "5">>

cUSD == <<"x", "1", ",", "0", "0", "0", ".", "5", "0">>

\* A header row and one data row below it: first cell (description or
\* unmapped), article number, quantity, price.
RowInputs ==
  [header : {HDesc, HPlain},
   row : {<<d, a, q, p>> :
            d \in {cBlank, cDrill, cSoldOut, cSold},
            a \in {cBlank, c123, cOut},
            q \in {cBlank, c0, c5, c1c5, cNotAvailable, cDrill},
            p \in {cBlank, c0, cPrice, cUSD, cSoldOut, cDrill}}]

InitRows == IdleRun /\ fn_in \in RowInputs

RowStep ==
  /\ pc = "ready"
  /\ pc' = "done"
  /\ fn_out' = ExtractRows(<<fn_in.header, fn_in.row>>, 0,
                           _map_headers(fn_in.header), 1, tAU)
  /\ UNCHANGED <<page_i, all_rows, logs, cur, fn_in>>

NextRows == RowStep

SpecRows == InitRows /\ [][NextRows]_vars

\* The 1-based cells of the data row that belong to a mapped column.
MappedCells ==
  {c \in 1..Len(fn_in.row) : (c - 1) \in DOMAIN _map_headers(fn_in.header)}

Blank(cell) == Strip(cell) = <<>>

QtyCell == fn_in.row[3]

PriceCell == fn_in.row[4]

ArtCell == fn_in.row[2]

\* Unavailable/Unparseable coerced to 0, otherwise the normalized value.
ValueOrZero(cell) ==
  IF UNAVAILABLE_RX(cell) \/ _normalize_number(cell) = None
  THEN Zero ELSE _normalize_number(cell)

AsStored(v) ==
  IF v.scale = 0 THEN [kind |-> "int", num |-> v.num, scale |-> 0] ELSE v

\* An unavailable marker somewhere in the space-joined mapped cells
MarkerInRow ==
  UNAVAILABLE_RX(RowConcat(_map_headers(fn_in.header), fn_in.row))

\* C5 as stated: the row gives no LineItem exactly when all its mapped cells
\* are blank, and exactly one otherwise.
C5_DropOnlyBlankRows ==
  pc = "done" =>
    /\ Len(fn_out) <= 1
    /\ Len(fn_out) = 0 <=> \A c \in MappedCells : Blank(fn_in.row[c])

\* C5 (amended): the row gives no LineItem exactly when its article number
\* is blank and its stored quantity and price are both 0, and exactly one
\* otherwise; quantity "0" with a blank article number and price "5,00"
\* gives a LineItem.
C5_DropRowsWithoutSignal ==
  pc = "done" =>
    /\ Len(fn_out) <= 1
    /\ Len(fn_out) = 0 <=>
         /\ Blank(ArtCell)
         /\ (MarkerInRow \/ ValueOrZero(QtyCell).num = 0)
         /\ ValueOrZero(PriceCell).num = 0
    /\ (ArtCell = cBlank /\ QtyCell = c0 /\ PriceCell = cPrice) =>
         Len(fn_out) = 1

C5_Witness ==
  /\ pc = "done"
  /\ fn_in.row = <<cBlank, cBlank, c0, cPrice>>
  /\ Len(fn_out) = 1
  /\ fn_out[1].art = <<>>
  /\ fn_out[1].price = [kind |-> "num", num |-> 5, scale |-> 0]

C5_DroppedWitness ==
  /\ pc = "done"
  /\ fn_in.header = HDesc
  /\ fn_in.row = <<cDrill, cBlank, c0, cBlank>>
  /\ fn_out = <<>>

\* C10 as stated: the stored quantity is 0 when the quantity cell is
\* unavailable or unparseable and its normalized value otherwise (an integer
\* when it has no fraction); the same for the price.
C10_QtyFromQtyCell ==
  (pc = "done" /\ fn_out # <<>>) =>
    /\ fn_out[1].qty = AsStored(ValueOrZero(QtyCell))
    /\ fn_out[1].price = ValueOrZero(PriceCell)

\* C10 (amended): the stored quantity is 0 when an unavailable marker occurs
\* in the quantity cell or anywhere in the space-joined mapped cells of the
\* row, or the quantity cell is unparseable, and its normalized value
\* otherwise (an integer when it has no fraction); the stored price is 0
\* when the price cell is unavailable or unparseable and its normalized
\* value otherwise.
C10_QtyZeroOnRowMarker ==
  (pc = "done" /\ fn_out # <<>>) =>
    /\ fn_out[1].qty =
         IF MarkerInRow THEN [kind |-> "int", num |-> 0, scale |-> 0]
         ELSE AsStored(ValueOrZero(QtyCell))
    /\ fn_out[1].price = ValueOrZero(PriceCell)
    /\ fn_out[1].qty.kind = "int" <=> fn_out[1].qty.scale = 0

C10_Witness ==
  /\ pc = "done"
  /\ fn_in.header = HDesc
  /\ fn_in.row = <<cSoldOut, c123, c5, cUSD>>
  /\ Len(fn_out) = 1
  /\ fn_out[1].qty = [kind |-> "int", num |-> 0, scale |-> 0]
  /\ fn_out[1].price = [kind |-> "num", num |-> 10005, scale |-> 1]

====
